---- MODULE Spec2Model ----
(***************************************************************************)
(* kazoe: the chunked scanning engine of src/count.rs.                     *)
(*                                                                         *)
(* Every statistic is a function of a byte buffer.  A buffer shorter than  *)
(* PARALLEL_THRESHOLD is scanned once; a longer one is cut by a chunk      *)
(* planner, every chunk is scanned on its own and the partial results are  *)
(* reduced (and, for words and patterns, corrected at the boundaries).     *)
(* Bytes are the integers 0..255, offsets are 0-based as in the source.    *)
(*                                                                         *)
(* CHUNK_SIZE and PARALLEL_THRESHOLD are 1 MiB and 512 KiB in the source.  *)
(* The model keeps their order (threshold < chunk size) and scales them    *)
(* down so that buffers of a few bytes reach every path: below the         *)
(* threshold, one chunk, several chunks.                                   *)
(*                                                                         *)
(* The comment and markdown filters work on the text line by line.  The    *)
(* chunk tasks of a chunked call and the file workers of a run are slots   *)
(* of one parallel map, filled in any order.  A run of the program         *)
(* (src/main.rs) collects the files, processes them and reports.           *)
(***************************************************************************)
EXTENDS Integers, Sequences, FiniteSets, TLC

\* one call of the engine: its arguments, the function called, its result
VARIABLES data, pattern, chunk_size, op, result

\* the slots of the parallel map in progress, one for each task
VARIABLES tasks

\* one run of the program: the parsed arguments, the file system it sees,
\* the collected files, what it has written, its exit status and where it is
VARIABLES args, fs, files, stderr, stdout, exit_code, pc

engineVars == <<data, pattern, chunk_size, op, result>>

mainVars == <<args, fs, files, stderr, stdout, exit_code, pc>>

vars == <<data, pattern, chunk_size, op, result, tasks,
          args, fs, files, stderr, stdout, exit_code, pc>>

\* the engine called on its own, outside any run of the program
NoProcess ==
    /\ args = [files |-> << >>]
    /\ fs = {}
    /\ files = << >>
    /\ stderr = << >>
    /\ stdout = << >>
    /\ exit_code = -1
    /\ pc = "none"

----------------------------------------------------------------------------
(* Sizes *)

CHUNK_SIZE == 3

PARALLEL_THRESHOLD == 2

\* buffers are concatenations of at most MaxPieces pieces
MaxPieces == 5

\* chunk sizes handed to the planners directly: 1..MaxChunk
MaxChunk == 3

\* buffers handed to the planners: at most MaxPlanPieces pieces
MaxPlanPieces == 6

\* buffers of records: at most MaxLinePieces pieces
MaxLinePieces == 5

\* buffers searched for a pattern: at most MaxHaystack bytes
MaxHaystack == 8

\* patterns: at most MaxPattern bytes
MaxPattern == 5

\* buffers handed to every statistic: at most MaxAnyLen bytes
MaxAnyLen == 3

\* patterns handed with them: at most MaxAnyPattern bytes
MaxAnyPattern == 2

\* pieces of a source text given to the comment filter
MaxCodePieces == 4

\* pieces of a text given to both filters
MaxFilterPieces == 4

\* pieces of a buffer scanned by chunk tasks
MaxParPieces == 5

\* paths given on the command line
MaxArgFiles == 2

\* names listed through --files0-from
MaxListed == 1

----------------------------------------------------------------------------
(* Slices and small helpers *)

\* data[i], 0-based
At(s, i) == s[i + 1]

\* &data[a..b]
Slice(s, a, b) == SubSeq(s, a + 1, b)

Min(a, b) == IF a < b THEN a ELSE b

Max(a, b) == IF a > b THEN a ELSE b

saturating_sub(a, b) == IF a >= b THEN a - b ELSE 0

RECURSIVE SumSeq(_)
SumSeq(s) == IF s = << >> THEN 0 ELSE Head(s) + SumSeq(Tail(s))

RECURSIVE MaxSeq(_)
MaxSeq(s) == IF s = << >> THEN 0 ELSE Max(Head(s), MaxSeq(Tail(s)))

RECURSIVE Flatten(_)
Flatten(ss) == IF ss = << >> THEN << >> ELSE Head(ss) \o Flatten(Tail(ss))

\* the chunk slices a boundary sequence cuts the buffer into
ChunksOf(s, bs) == [k \in 1..(Len(bs) - 1) |-> Slice(s, bs[k], bs[k + 1])]

----------------------------------------------------------------------------
(* Byte and character classes *)

\* u8::is_ascii_whitespace: space, \t, \n, form feed, \r (not vertical tab)
is_ascii_whitespace(b) == b \in {32, 9, 10, 12, 13}

\* (b & 0xC0) == 0x80
is_continuation(b) == b \in 128..191

\* char::is_whitespace: the Unicode White_Space code points
is_whitespace(c) ==
    \/ c \in 9..13
    \/ c \in {32, 133, 160, 5760, 8232, 8233, 8239, 8287, 12288}
    \/ c \in 8192..8202

\* Width of the well-formed UTF-8 sequence that starts at offset i, 0 if the
\* bytes at i do not start one (std::str::from_utf8's validation).
Utf8Width(s, i) ==
    LET n == Len(s)
        b0 == At(s, i)
        cont(j) == j < n /\ is_continuation(At(s, j))
    IN  IF b0 < 128 THEN 1
        ELSE IF b0 \in 194..223
             THEN IF cont(i + 1) THEN 2 ELSE 0
        ELSE IF b0 \in 224..239
             THEN IF /\ i + 1 < n
                     /\ \/ b0 = 224 /\ At(s, i + 1) \in 160..191
                        \/ b0 \in (225..236) \cup {238, 239} /\ At(s, i + 1) \in 128..191
                        \/ b0 = 237 /\ At(s, i + 1) \in 128..159
                     /\ cont(i + 2)
                  THEN 3 ELSE 0
        ELSE IF b0 \in 240..244
             THEN IF /\ i + 1 < n
                     /\ \/ b0 = 240 /\ At(s, i + 1) \in 144..191
                        \/ b0 \in 241..243 /\ At(s, i + 1) \in 128..191
                        \/ b0 = 244 /\ At(s, i + 1) \in 128..143
                     /\ cont(i + 2)
                     /\ cont(i + 3)
                  THEN 4 ELSE 0
        ELSE 0

\* the code point of the well-formed sequence of width w at offset i
CodePoint(s, i, w) ==
    CASE w = 1 -> At(s, i)
      [] w = 2 -> (At(s, i) - 192) * 64 + (At(s, i + 1) - 128)
      [] w = 3 -> (At(s, i) - 224) * 4096 + (At(s, i + 1) - 128) * 64
                    + (At(s, i + 2) - 128)
      [] w = 4 -> (At(s, i) - 240) * 262144 + (At(s, i + 1) - 128) * 4096
                    + (At(s, i + 2) - 128) * 64 + (At(s, i + 3) - 128)

\* std::str::from_utf8(s).is_ok()
RECURSIVE ValidFrom(_, _)
ValidFrom(s, i) ==
    IF i >= Len(s) THEN TRUE
    ELSE LET w == Utf8Width(s, i)
         IN  IF w = 0 THEN FALSE ELSE ValidFrom(s, i + w)

is_utf8(s) == ValidFrom(s, 0)

\* text.chars(): the code points of a valid slice, in order
RECURSIVE CharsFrom(_, _)
CharsFrom(s, i) ==
    IF i >= Len(s) THEN << >>
    ELSE LET w == Utf8Width(s, i)
         IN  <<CodePoint(s, i, w)>> \o CharsFrom(s, i + w)

chars(s) == CharsFrom(s, 0)

----------------------------------------------------------------------------
(* Chunk planners *)

\* find_utf8_boundary without the skip over continuation bytes
find_utf8_boundary_noskip(s, pos) == IF pos >= Len(s) THEN Len(s) ELSE pos

\* find_utf8_boundary: skip forward over continuation bytes
RECURSIVE find_utf8_boundary(_, _)
find_utf8_boundary(s, pos) ==
    IF pos >= Len(s) THEN Len(s)
    ELSE IF is_continuation(At(s, pos)) THEN find_utf8_boundary(s, pos + 1)
    ELSE pos

\* the loop of find_utf8_chunk_boundaries taking its candidates at the
\* multiples of the chunk size, whatever the boundary before them
RECURSIVE Utf8Loop_nominal(_, _, _, _)
Utf8Loop_nominal(s, cs, pos, bs) ==
    IF pos < Len(s)
    THEN LET p == find_utf8_boundary(s, pos)
         IN  Utf8Loop_nominal(s, cs, pos + cs, Append(bs, p))
    ELSE bs

\* the while loop of find_utf8_chunk_boundaries
RECURSIVE Utf8Loop(_, _, _, _)
Utf8Loop(s, cs, pos, bs) ==
    IF pos < Len(s)
    THEN LET p == find_utf8_boundary(s, pos)
         IN  Utf8Loop(s, cs, p + cs, Append(bs, p))
    ELSE bs

find_utf8_chunk_boundaries(s, cs) ==
    LET bs == Utf8Loop(s, cs, cs, <<0>>)
    IN  IF bs[Len(bs)] # Len(s) THEN Append(bs, Len(s)) ELSE bs

\* memchr(b, &s[from..]): offset of the first b at or after from, relative
\* to from; -1 for None
RECURSIVE memchr(_, _, _)
memchr(b, s, from) ==
    IF from >= Len(s) THEN -1
    ELSE IF At(s, from) = b THEN 0
    ELSE LET r == memchr(b, s, from + 1)
         IN  IF r = -1 THEN -1 ELSE r + 1

\* the loop of find_line_boundaries cutting at the nominal offset, without
\* the search for the next line terminator
RECURSIVE LineLoop_nosearch(_, _, _, _)
LineLoop_nosearch(s, cs, pos, bs) ==
    IF pos < Len(s)
    THEN LineLoop_nosearch(s, cs, pos + cs, Append(bs, pos))
    ELSE bs

\* the loop of find_line_boundaries cutting at the '\n' itself instead of
\* after it
RECURSIVE LineLoop_before(_, _, _, _)
LineLoop_before(s, cs, pos, bs) ==
    IF pos < Len(s)
    THEN LET nl == memchr(10, s, pos)
             p  == IF nl # -1 THEN pos + nl ELSE Len(s)
         IN  LineLoop_before(s, cs, p + cs, Append(bs, p))
    ELSE bs

\* the while loop of find_line_boundaries
RECURSIVE LineLoop(_, _, _, _)
LineLoop(s, cs, pos, bs) ==
    IF pos < Len(s)
    THEN LET nl == memchr(10, s, pos)
             p  == IF nl # -1 THEN pos + nl + 1 ELSE Len(s)
         IN  LineLoop(s, cs, p + cs, Append(bs, p))
    ELSE bs

\* find_line_boundaries pushing the buffer length without looking at the
\* last boundary
find_line_boundaries_push(s, cs) ==
    Append(LineLoop(s, cs, cs, <<0>>), Len(s))

find_line_boundaries(s, cs) ==
    LET bs == LineLoop(s, cs, cs, <<0>>)
    IN  IF bs[Len(bs)] # Len(s) THEN Append(bs, Len(s)) ELSE bs

----------------------------------------------------------------------------
(* Lines *)

\* memchr::memchr_iter(b'\n', chunk).count()
RECURSIVE NewlineCount(_)
NewlineCount(s) ==
    IF s = << >> THEN 0
    ELSE (IF Head(s) = 10 THEN 1 ELSE 0) + NewlineCount(Tail(s))

\* data.par_chunks(cs): slices of cs bytes, the last one possibly shorter
par_chunks(s, cs) ==
    [k \in 1..((Len(s) + cs - 1) \div cs) |->
        Slice(s, (k - 1) * cs, Min(k * cs, Len(s)))]

count_lines(s) ==
    IF Len(s) < PARALLEL_THRESHOLD THEN NewlineCount(s)
    ELSE LET cks == par_chunks(s, CHUNK_SIZE)
         IN  SumSeq([k \in 1..Len(cks) |-> NewlineCount(cks[k])])

\* data[a..b].iter().all(|&b| b.is_ascii_whitespace())
AllAsciiWhitespace(s, a, b) ==
    \A i \in a..(b - 1) : is_ascii_whitespace(At(s, i))

\* the loop of count_blank_lines_chunk over the positions of '\n', then the
\* record after the last terminator
RECURSIVE BlankLoop(_, _, _, _)
BlankLoop(s, pos, line_start, count) ==
    IF pos >= Len(s)
    THEN IF line_start < Len(s) /\ AllAsciiWhitespace(s, line_start, Len(s))
         THEN count + 1 ELSE count
    ELSE IF At(s, pos) = 10
    THEN BlankLoop(s, pos + 1, pos + 1,
                   IF AllAsciiWhitespace(s, line_start, pos)
                   THEN count + 1 ELSE count)
    ELSE BlankLoop(s, pos + 1, line_start, count)

count_blank_lines_chunk(s) == BlankLoop(s, 0, 0, 0)

count_blank_lines(s) ==
    IF s = << >> THEN 0
    ELSE IF Len(s) < PARALLEL_THRESHOLD THEN count_blank_lines_chunk(s)
    ELSE LET cks == ChunksOf(s, find_line_boundaries(s, CHUNK_SIZE))
         IN  SumSeq([k \in 1..Len(cks) |-> count_blank_lines_chunk(cks[k])])

\* the length of the record data[prev..end]: a '\r' just before end is not
\* counted
RecordLen(s, prev, end) ==
    IF end > prev /\ At(s, end - 1) = 13 THEN end - 1 - prev ELSE end - prev

\* the loop of max_line_length_chunk
RECURSIVE MaxLenLoop(_, _, _, _)
MaxLenLoop(s, pos, prev, max_len) ==
    IF pos >= Len(s)
    THEN IF prev < Len(s) THEN Max(max_len, RecordLen(s, prev, Len(s)))
         ELSE max_len
    ELSE IF At(s, pos) = 10
    THEN MaxLenLoop(s, pos + 1, pos + 1, Max(max_len, RecordLen(s, prev, pos)))
    ELSE MaxLenLoop(s, pos + 1, prev, max_len)

max_line_length_chunk(s) == MaxLenLoop(s, 0, 0, 0)

max_line_length(s) ==
    IF s = << >> THEN 0
    ELSE IF Len(s) < PARALLEL_THRESHOLD THEN max_line_length_chunk(s)
    ELSE LET cks == ChunksOf(s, find_line_boundaries(s, CHUNK_SIZE))
         IN  MaxSeq([k \in 1..Len(cks) |-> max_line_length_chunk(cks[k])])

\* the loop of collect_line_lengths_chunk
RECURSIVE LengthsLoop(_, _, _, _)
LengthsLoop(s, pos, prev, lengths) ==
    IF pos >= Len(s)
    THEN IF prev < Len(s) THEN Append(lengths, RecordLen(s, prev, Len(s)))
         ELSE lengths
    ELSE IF At(s, pos) = 10
    THEN LengthsLoop(s, pos + 1, pos + 1,
                     Append(lengths, RecordLen(s, prev, pos)))
    ELSE LengthsLoop(s, pos + 1, prev, lengths)

collect_line_lengths_chunk(s) == LengthsLoop(s, 0, 0, << >>)

\* the line_lengths of calculate_statistics: one scan, or the chunks' lists
\* flattened in offset order
line_lengths(s) ==
    IF Len(s) < PARALLEL_THRESHOLD THEN collect_line_lengths_chunk(s)
    ELSE LET cks == ChunksOf(s, find_line_boundaries(s, CHUNK_SIZE))
         IN  Flatten([k \in 1..Len(cks) |-> collect_line_lengths_chunk(cks[k])])

\* *histogram.entry(bucket).or_insert(0) = n
AddToBucket_overwrite(h, bucket, n) ==
    [b \in DOMAIN h \cup {bucket} |-> IF b = bucket THEN n ELSE h[b]]

\* *histogram.entry(bucket).or_insert(0) += n
AddToBucket(h, bucket, n) ==
    [b \in DOMAIN h \cup {bucket} |->
        (IF b \in DOMAIN h THEN h[b] ELSE 0) + (IF b = bucket THEN n ELSE 0)]

\* HashMap::new()
EmptyMap == [b \in {} |-> 0]

\* the loop of generate_histogram_chunk
RECURSIVE HistLoop(_, _, _, _)
HistLoop(s, pos, prev, histogram) ==
    IF pos >= Len(s)
    THEN IF prev < Len(s)
         THEN AddToBucket(histogram, (RecordLen(s, prev, Len(s)) \div 10) * 10, 1)
         ELSE histogram
    ELSE IF At(s, pos) = 10
    THEN HistLoop(s, pos + 1, pos + 1,
                  AddToBucket(histogram, (RecordLen(s, prev, pos) \div 10) * 10, 1))
    ELSE HistLoop(s, pos + 1, prev, histogram)

generate_histogram_chunk(s) == HistLoop(s, 0, 0, EmptyMap)

\* the merge loop of generate_histogram: every bucket of every map added
RECURSIVE MergeMaps(_, _)
MergeMaps(maps, histogram) ==
    IF maps = << >> THEN histogram
    ELSE LET m == Head(maps)
         IN  MergeMaps(Tail(maps),
                [b \in DOMAIN histogram \cup DOMAIN m |->
                    (IF b \in DOMAIN histogram THEN histogram[b] ELSE 0)
                    + (IF b \in DOMAIN m THEN m[b] ELSE 0)])

generate_histogram(s) ==
    IF s = << >> THEN EmptyMap
    ELSE IF Len(s) < PARALLEL_THRESHOLD THEN generate_histogram_chunk(s)
    ELSE LET cks == ChunksOf(s, find_line_boundaries(s, CHUNK_SIZE))
         IN  MergeMaps([k \in 1..Len(cks) |-> generate_histogram_chunk(cks[k])],
                       EmptyMap)

----------------------------------------------------------------------------
(* Statistics *)

\* the position at which insertion keeps a sorted list sorted
RECURSIVE Insert(_, _)
Insert(x, sorted) ==
    IF sorted = << >> THEN <<x>>
    ELSE IF x <= Head(sorted) THEN <<x>> \o sorted
    ELSE <<Head(sorted)>> \o Insert(x, Tail(sorted))

\* the list left in the order of the records
Sort_unsorted(s) == s

\* sorted.sort_unstable(): the list in ascending order
RECURSIVE Sort(_)
Sort(s) == IF s = << >> THEN << >> ELSE Insert(Head(s), Sort(Tail(s)))

\* the median of calculate_statistics: usize arithmetic, so the average of
\* the two central values of an even count is an integer division
Median(sorted) ==
    IF Len(sorted) % 2 = 0
    THEN LET mid == Len(sorted) \div 2
         IN  (At(sorted, mid - 1) + At(sorted, mid)) \div 2
    ELSE At(sorted, Len(sorted) \div 2)

\* the all-zero Statistics; the f64 fields are kept as exact fractions
\* <<numerator, denominator>>
ZeroStatistics ==
    [mean_line_length   |-> <<0, 1>>,
     median_line_length |-> 0,
     variance           |-> <<0, 1>>,
     min_line_length    |-> 0,
     max_line_length    |-> 0,
     empty_lines        |-> 0]

\* The Statistics of a list of line lengths.  mean_line_length is sum / n;
\* std_dev is the square root of variance, which is the sum of the squared
\* deviations from the mean over n, that is (n * sum of squares - sum^2) / n^2.
StatisticsOf(lens) ==
    IF lens = << >> THEN ZeroStatistics
    ELSE LET n      == Len(lens)
             sum    == SumSeq(lens)
             sumsq  == SumSeq([k \in 1..n |-> lens[k] * lens[k]])
             sorted == Sort(lens)
         IN  [mean_line_length   |-> <<sum, n>>,
              median_line_length |-> Median(sorted),
              variance           |-> <<n * sumsq - sum * sum, n * n>>,
              min_line_length    |-> At(sorted, 0),
              max_line_length    |-> At(sorted, Len(sorted) - 1),
              empty_lines        |->
                   Cardinality({k \in 1..n : lens[k] = 0})]

calculate_statistics(s) ==
    IF s = << >> THEN ZeroStatistics ELSE StatisticsOf(line_lengths(s))

----------------------------------------------------------------------------
(* Words *)

\* the scanning loop of count_words_in_chunk over the whitespace flags of
\* the units (characters or bytes) of the chunk
RECURSIVE WordLoop(_, _, _, _)
WordLoop(ws, k, in_word, count) ==
    IF k > Len(ws) THEN count
    ELSE IF ws[k] THEN WordLoop(ws, k + 1, FALSE, count)
    ELSE IF ~in_word THEN WordLoop(ws, k + 1, TRUE, count + 1)
    ELSE WordLoop(ws, k + 1, in_word, count)

count_words_in_chunk(chunk) ==
    IF is_utf8(chunk)
    THEN LET cs == chars(chunk)
         IN  WordLoop([k \in 1..Len(cs) |-> is_whitespace(cs[k])], 1, FALSE, 0)
    ELSE WordLoop([k \in 1..Len(chunk) |-> is_ascii_whitespace(chunk[k])],
                  1, FALSE, 0)

\* no boundary correction at all
Overcounted_zero(s, bs) == 0

\* the boundary loop of count_all_words: boundaries with a non-whitespace
\* byte on both sides
Overcounted(s, bs) ==
    Cardinality({k \in 1..(Len(bs) - 1) :
        LET boundary == bs[k + 1]
        IN  /\ boundary > 0
            /\ boundary < Len(s)
            /\ ~is_ascii_whitespace(At(s, boundary - 1))
            /\ ~is_ascii_whitespace(At(s, boundary))})

\* the chunked path of count_all_words
WordsChunked(s) ==
    LET bs    == find_utf8_chunk_boundaries(s, CHUNK_SIZE)
        cks   == ChunksOf(s, bs)
        count == SumSeq([k \in 1..Len(cks) |-> count_words_in_chunk(cks[k])])
    IN  saturating_sub(count, Overcounted(s, bs))

count_all_words(s) ==
    IF s = << >> THEN 0
    ELSE IF Len(s) < PARALLEL_THRESHOLD THEN count_words_in_chunk(s)
    ELSE WordsChunked(s)

----------------------------------------------------------------------------
(* Patterns *)

\* the pattern occurs in h at offset i
MatchAt(h, p, i) == i + Len(p) <= Len(h) /\ Slice(h, i, i + Len(p)) = p

\* Finder::find_iter(h): the offsets of the occurrences found by one
\* left-to-right search that resumes after the end of each match
RECURSIVE FindFrom(_, _, _)
FindFrom(h, p, i) ==
    IF i + Len(p) > Len(h) THEN << >>
    ELSE IF MatchAt(h, p, i) THEN <<i>> \o FindFrom(h, p, i + Len(p))
    ELSE FindFrom(h, p, i + 1)

find_iter(h, p) == FindFrom(h, p, 0)

\* data.len().div_ceil(CHUNK_SIZE)
NumChunks(s) == (Len(s) + CHUNK_SIZE - 1) \div CHUNK_SIZE

\* the sum of the per-chunk counts of count_pattern
PatternChunkCount(s, p) ==
    SumSeq([k \in 1..NumChunks(s) |->
        Len(find_iter(Slice(s, (k - 1) * CHUNK_SIZE,
                            Min(k * CHUNK_SIZE, Len(s))), p))])

\* no search around the boundary
BoundaryMatchesAt_none(s, p, i) == 0

\* one iteration of the boundary loop of count_pattern: the matches of the
\* window around boundary i * CHUNK_SIZE that straddle it
BoundaryMatchesAt(s, p, i) ==
    LET boundary     == i * CHUNK_SIZE
        search_start == saturating_sub(boundary, Len(p) - 1)
        search_end   == Min(boundary + Len(p) - 1, Len(s))
    IN  IF search_start >= search_end THEN 0
        ELSE LET found == find_iter(Slice(s, search_start, search_end), p)
             IN  Cardinality({k \in 1..Len(found) :
                    /\ search_start + found[k] < boundary
                    /\ search_start + found[k] + Len(p) > boundary})

BoundaryMatches(s, p) ==
    SumSeq([i \in 1..(NumChunks(s) - 1) |-> BoundaryMatchesAt(s, p, i)])

\* count_pattern without the test for an empty pattern: the searcher finds
\* an empty pattern at every offset, the end of the buffer included
count_pattern_noguard(s, p) ==
    IF s = << >> THEN 0
    ELSE IF p = << >> THEN Len(s) + 1
    ELSE IF Len(s) < PARALLEL_THRESHOLD THEN Len(find_iter(s, p))
    ELSE PatternChunkCount(s, p) + BoundaryMatches(s, p)

count_pattern(s, p) ==
    IF s = << >> \/ p = << >> THEN 0
    ELSE IF Len(s) < PARALLEL_THRESHOLD THEN Len(find_iter(s, p))
    ELSE PatternChunkCount(s, p) + BoundaryMatches(s, p)

----------------------------------------------------------------------------
(* Characters *)

\* std::str::from_utf8(chunk).map(|s| s.chars().count()).unwrap_or(chunk.len())
CharsOrLen(chunk) == IF is_utf8(chunk) THEN Len(chars(chunk)) ELSE Len(chunk)

\* count_chars cutting the buffer every CHUNK_SIZE bytes, as count_lines
\* does, instead of at the UTF-8 boundaries
count_chars_unaligned(s) ==
    IF s = << >> THEN 0
    ELSE IF Len(s) < PARALLEL_THRESHOLD THEN CharsOrLen(s)
    ELSE LET cks == par_chunks(s, CHUNK_SIZE)
         IN  SumSeq([k \in 1..Len(cks) |-> CharsOrLen(cks[k])])

count_chars(s) ==
    IF s = << >> THEN 0
    ELSE IF Len(s) < PARALLEL_THRESHOLD THEN CharsOrLen(s)
    ELSE LET cks == ChunksOf(s, find_utf8_chunk_boundaries(s, CHUNK_SIZE))
         IN  SumSeq([k \in 1..Len(cks) |-> CharsOrLen(cks[k])])

----------------------------------------------------------------------------
(* Unique words *)

\* text.split(|c| c.is_whitespace()).filter(|w| !w.is_empty()) collected
\* into a set: the tokens are the byte slices between whitespace characters
RECURSIVE SplitLoop(_, _, _, _)
SplitLoop(s, i, cur, acc) ==
    IF i >= Len(s) THEN (IF cur = << >> THEN acc ELSE acc \cup {cur})
    ELSE LET w == Utf8Width(s, i)
         IN  IF is_whitespace(CodePoint(s, i, w))
             THEN SplitLoop(s, i + w, << >>,
                            IF cur = << >> THEN acc ELSE acc \cup {cur})
             ELSE SplitLoop(s, i + w, cur \o Slice(s, i, i + w), acc)

WordSet(text) == SplitLoop(text, 0, << >>, {})

\* one chunk task of count_unique_words: from_utf8(chunk).unwrap_or("")
LocalSet(chunk) == IF is_utf8(chunk) THEN WordSet(chunk) ELSE {}

count_unique_words(s) ==
    IF ~is_utf8(s) THEN 0
    ELSE IF Len(s) < PARALLEL_THRESHOLD THEN Cardinality(WordSet(s))
    ELSE LET cks == ChunksOf(s, find_utf8_chunk_boundaries(s, CHUNK_SIZE))
         IN  Cardinality(UNION {LocalSet(cks[k]) : k \in 1..Len(cks)})

----------------------------------------------------------------------------
(* Comment and markdown filters *)

\* The filters work on the text as &str.  The model holds a &str as the
\* sequence of its chars; an offset counts chars where the source counts
\* bytes, which makes no difference to the slices taken because every
\* marker searched for is ASCII.

\* char::encode_utf8
encode_utf8(c) ==
    IF c < 128 THEN <<c>>
    ELSE IF c < 2048 THEN <<192 + (c \div 64), 128 + (c % 64)>>
    ELSE IF c < 65536
         THEN <<224 + (c \div 4096), 128 + ((c \div 64) % 64), 128 + (c % 64)>>
    ELSE <<240 + (c \div 262144), 128 + ((c \div 4096) % 64),
           128 + ((c \div 64) % 64), 128 + (c % 64)>>

\* str::as_bytes
RECURSIVE as_bytes(_)
as_bytes(cs) ==
    IF cs = << >> THEN << >> ELSE encode_utf8(Head(cs)) \o as_bytes(Tail(cs))

\* what str::lines() strips from a line that ended with '\n': one '\r'
strip_cr(line) ==
    IF line # << >> /\ line[Len(line)] = 13
    THEN SubSeq(line, 1, Len(line) - 1) ELSE line

\* str::lines(): the text is cut after every '\n'; a line loses its "\n" or
\* "\r\n"; a last line without '\n' is returned as it is; no line follows a
\* final '\n'
RECURSIVE LinesLoop(_, _, _, _)
LinesLoop(cs, i, cur, acc) ==
    IF i > Len(cs) THEN (IF cur = << >> THEN acc ELSE Append(acc, cur))
    ELSE IF cs[i] = 10 THEN LinesLoop(cs, i + 1, << >>, Append(acc, strip_cr(cur)))
    ELSE LinesLoop(cs, i + 1, Append(cur, cs[i]), acc)

lines(cs) == LinesLoop(cs, 1, << >>, << >>)

RECURSIVE trim_end(_)
trim_end(cs) ==
    IF cs # << >> /\ is_whitespace(cs[Len(cs)])
    THEN trim_end(SubSeq(cs, 1, Len(cs) - 1)) ELSE cs

RECURSIVE trim_start(_)
trim_start(cs) ==
    IF cs # << >> /\ is_whitespace(Head(cs)) THEN trim_start(Tail(cs)) ELSE cs

trim(cs) == trim_start(trim_end(cs))

starts_with(cs, p) == MatchAt(cs, p, 0)

\* str::find(marker): the offset of the first occurrence, -1 for None
find(s, marker) ==
    LET hits == {i \in 0..(Len(s) - Len(marker)) : MatchAt(s, marker, i)}
    IN  IF hits = {} THEN -1 ELSE CHOOSE i \in hits : \A j \in hits : i <= j

Slash2 == <<47, 47>>
Hash == <<35>>
Dash2 == <<45, 45>>
BlockOpen == <<47, 42>>
BlockClose == <<42, 47>>
DocDouble == <<34, 34, 34>>
DocSingle == <<39, 39, 39>>

\* the while loop of find_comment_marker, -1 for None
RECURSIVE MarkerLoop(_, _, _, _)
MarkerLoop(s, marker, require_whitespace_before, start) ==
    LET pos == find(Slice(s, start, Len(s)), marker)
    IN  IF pos = -1 THEN -1
        ELSE LET abs_pos == start + pos
             IN  IF \/ ~require_whitespace_before
                    \/ abs_pos = 0
                    \/ is_whitespace(At(s, abs_pos - 1))
                 THEN abs_pos
                 ELSE MarkerLoop(s, marker, require_whitespace_before, abs_pos + 1)

find_comment_marker(s, marker, require_whitespace_before) ==
    MarkerLoop(s, marker, require_whitespace_before, 0)

\* the filter's state between lines
NormalState ==
    [in_multiline_c_comment |-> FALSE, in_python_docstring |-> FALSE,
     docstring_marker |-> << >>]

\* the markers array of one iteration with the None entries filtered out
Markers(current) ==
    SelectSeq(<<<<find_comment_marker(current, Slash2, TRUE), "single_slash">>,
                <<find_comment_marker(current, Hash, TRUE), "single_hash">>,
                <<find_comment_marker(current, Dash2, TRUE), "single_dash">>,
                <<find_comment_marker(current, BlockOpen, TRUE), "multi">>,
                <<find(current, DocDouble), "doc_double">>,
                <<find(current, DocSingle), "doc_single">>>>,
              LAMBDA m : m[1] # -1)

\* Iterator::min_by_key: the first of the entries with the least offset
min_by_key(ms) ==
    LET k == CHOOSE i \in 1..Len(ms) :
                 /\ \A j \in 1..Len(ms) : ms[i][1] <= ms[j][1]
                 /\ \A j \in 1..(i - 1) : ms[j][1] # ms[i][1]
    IN  ms[k]

\* The while loop over one line.  current is the part of the line still to
\* scan and base its offset in the line.  The loop returns the line's
\* output, the state it leaves, and (for the claims only) the offset in the
\* line of the line-comment opener that ended the scan, -1 if none did.
RECURSIVE ScanLine(_, _, _, _)
ScanLine(current, base, st, line_output) ==
    LET stop(out, s, o) == [line_output |-> out, st |-> s, opener |-> o]
        rest(n) == Slice(current, n, Len(current))
    IN
    IF current = << >> THEN stop(line_output, st, -1)
    ELSE IF st.in_multiline_c_comment
    THEN LET pos == find(current, BlockClose)
         IN  IF pos # -1
             THEN ScanLine(rest(pos + 2), base + pos + 2,
                           [st EXCEPT !.in_multiline_c_comment = FALSE],
                           line_output)
             ELSE stop(line_output, st, -1)
    ELSE IF st.in_python_docstring
    THEN LET pos == find(current, st.docstring_marker)
             n == Len(st.docstring_marker)
         IN  IF pos # -1
             THEN ScanLine(rest(pos + n), base + pos + n,
                           [st EXCEPT !.in_python_docstring = FALSE],
                           line_output)
             ELSE stop(line_output, st, -1)
    ELSE LET ms == Markers(current)
         IN  IF ms = << >> THEN stop(line_output \o current, st, -1)
             ELSE
             LET pos == min_by_key(ms)[1]
                 marker_type == min_by_key(ms)[2]
                 out == line_output \o Slice(current, 0, pos)
                 closer == IF marker_type = "multi" THEN BlockClose
                           ELSE IF marker_type = "doc_double" THEN DocDouble
                           ELSE DocSingle
                 n == IF marker_type = "multi" THEN 2 ELSE 3
                 after == rest(pos + n)
                 end_pos == find(after, closer)
             IN  IF marker_type \in {"single_slash", "single_hash", "single_dash"}
                 THEN stop(out, st, base + pos)
                 ELSE IF end_pos # -1
                 THEN ScanLine(Slice(after, end_pos + n, Len(after)),
                               base + pos + n + end_pos + n, st, out)
                 ELSE IF marker_type = "multi"
                 THEN stop(out, [st EXCEPT !.in_multiline_c_comment = TRUE], -1)
                 ELSE stop(out, [st EXCEPT !.in_python_docstring = TRUE,
                                           !.docstring_marker = closer], -1)

\* The for loop over the lines.  acc.result is the output so far.  For the
\* claims only, acc.residues records every line's line_output and
\* acc.openers each line together with the offset of the line-comment
\* opener found in it.
RECURSIVE CodeLoop_reset(_, _, _, _)
CodeLoop_reset(ls, k, st, acc) ==
    IF k > Len(ls) THEN acc
    ELSE LET r == ScanLine(ls[k], 0, st, << >>)
             trimmed == trim_end(r.line_output)
         IN  CodeLoop_reset(ls, k + 1, NormalState,
                 [result |-> IF trim_start(trimmed) # << >>
                             THEN acc.result \o trimmed \o <<10>>
                             ELSE acc.result,
                  residues |-> Append(acc.residues, r.line_output),
                  openers |-> IF r.opener # -1
                              THEN Append(acc.openers, <<ls[k], r.opener>>)
                              ELSE acc.openers])

RECURSIVE CodeLoop_always(_, _, _, _)
CodeLoop_always(ls, k, st, acc) ==
    IF k > Len(ls) THEN acc
    ELSE LET r == ScanLine(ls[k], 0, st, << >>)
             trimmed == trim_end(r.line_output)
         IN  CodeLoop_always(ls, k + 1, r.st,
                 [result |-> acc.result \o trimmed \o <<10>>,
                  residues |-> Append(acc.residues, r.line_output),
                  openers |-> IF r.opener # -1
                              THEN Append(acc.openers, <<ls[k], r.opener>>)
                              ELSE acc.openers])

RECURSIVE CodeLoop(_, _, _, _)
CodeLoop(ls, k, st, acc) ==
    IF k > Len(ls) THEN acc
    ELSE LET r == ScanLine(ls[k], 0, st, << >>)
             trimmed == trim_end(r.line_output)
         IN  CodeLoop(ls, k + 1, r.st,
                 [result |-> IF trim_start(trimmed) # << >>
                             THEN acc.result \o trimmed \o <<10>>
                             ELSE acc.result,
                  residues |-> Append(acc.residues, r.line_output),
                  openers |-> IF r.opener # -1
                              THEN Append(acc.openers, <<ls[k], r.opener>>)
                              ELSE acc.openers])

FilterCode(text) ==
    CodeLoop(lines(text), 1, NormalState,
             [result |-> << >>, residues |-> << >>, openers |-> << >>])

filter_code_comments(s) ==
    IF ~is_utf8(s) THEN s ELSE as_bytes(FilterCode(chars(s)).result)

\* the loop of filter_inline_code dropping the backticks without toggling
RECURSIVE InlineLoop_notoggle(_, _, _, _)
InlineLoop_notoggle(line, i, in_code, out) ==
    IF i > Len(line) THEN out
    ELSE IF line[i] = 96 THEN InlineLoop_notoggle(line, i + 1, in_code, out)
    ELSE InlineLoop_notoggle(line, i + 1, in_code,
                             IF in_code THEN out ELSE Append(out, line[i]))

\* filter_inline_code: the chars outside backtick pairs
RECURSIVE InlineLoop(_, _, _, _)
InlineLoop(line, i, in_code, out) ==
    IF i > Len(line) THEN out
    ELSE IF line[i] = 96 THEN InlineLoop(line, i + 1, ~in_code, out)
    ELSE InlineLoop(line, i + 1, in_code,
                    IF in_code THEN out ELSE Append(out, line[i]))

filter_inline_code(line) == InlineLoop(line, 1, FALSE, << >>)

Fence == <<96, 96, 96>>

\* the loop writing a kept line as it is, without the inline filter
RECURSIVE MarkdownLoop_raw(_, _, _, _)
MarkdownLoop_raw(ls, k, in_code_block, out) ==
    IF k > Len(ls) THEN out
    ELSE IF starts_with(trim(ls[k]), Fence)
    THEN MarkdownLoop_raw(ls, k + 1, ~in_code_block, out)
    ELSE IF in_code_block THEN MarkdownLoop_raw(ls, k + 1, in_code_block, out)
    ELSE MarkdownLoop_raw(ls, k + 1, in_code_block, out \o ls[k] \o <<10>>)

\* the loop dropping a fence line without toggling the state
RECURSIVE MarkdownLoop_notoggle(_, _, _, _)
MarkdownLoop_notoggle(ls, k, in_code_block, out) ==
    IF k > Len(ls) THEN out
    ELSE IF starts_with(trim(ls[k]), Fence)
    THEN MarkdownLoop_notoggle(ls, k + 1, in_code_block, out)
    ELSE IF in_code_block THEN MarkdownLoop_notoggle(ls, k + 1, in_code_block, out)
    ELSE MarkdownLoop_notoggle(ls, k + 1, in_code_block,
                               out \o filter_inline_code(ls[k]) \o <<10>>)

RECURSIVE MarkdownLoop(_, _, _, _)
MarkdownLoop(ls, k, in_code_block, out) ==
    IF k > Len(ls) THEN out
    ELSE IF starts_with(trim(ls[k]), Fence)
    THEN MarkdownLoop(ls, k + 1, ~in_code_block, out)
    ELSE IF in_code_block THEN MarkdownLoop(ls, k + 1, in_code_block, out)
    ELSE MarkdownLoop(ls, k + 1, in_code_block,
                      out \o filter_inline_code(ls[k]) \o <<10>>)

FilterMarkdown(text) == MarkdownLoop(lines(text), 1, FALSE, << >>)

filter_markdown_code_drop(s) ==
    IF ~is_utf8(s) THEN << >> ELSE as_bytes(FilterMarkdown(chars(s)))

filter_markdown_code(s) ==
    IF ~is_utf8(s) THEN s ELSE as_bytes(FilterMarkdown(chars(s)))

----------------------------------------------------------------------------
(* Buffers *)

\* the concatenations of at most n pieces
RECURSIVE Concats(_, _)
Concats(P, n) ==
    IF n = 0 THEN {<< >>}
    ELSE LET shorter == Concats(P, n - 1)
         IN  shorter \cup {s \o p : s \in shorter, p \in P}

\* 'a', ' ', vertical tab, a two-byte lead (0xC2), a continuation byte
\* (0xA0; C2 A0 is U+00A0, E2 82 A0 is U+20A0) and the first two bytes of a
\* three-byte character (E2 82)
TextPieces == {<<97>>, <<32>>, <<11>>, <<194>>, <<160>>, <<226, 130>>}

TextBuffers == Concats(TextPieces, MaxPieces)

----------------------------------------------------------------------------
(* Operations on text buffers *)

InitText ==
    /\ data \in TextBuffers
    /\ pattern = << >>
    /\ chunk_size = CHUNK_SIZE
    /\ op = "none"
    /\ result = 0
    /\ tasks = << >>
    /\ NoProcess

CountAllWords ==
    /\ op = "none"
    /\ op' = "count_all_words"
    /\ result' = count_all_words(data)
    /\ UNCHANGED <<data, pattern, chunk_size, tasks, mainVars>>

CountChars ==
    /\ op = "none"
    /\ op' = "count_chars"
    /\ result' = count_chars(data)
    /\ UNCHANGED <<data, pattern, chunk_size, tasks, mainVars>>

CountUniqueWords ==
    /\ op = "none"
    /\ op' = "count_unique_words"
    /\ result' = count_unique_words(data)
    /\ UNCHANGED <<data, pattern, chunk_size, tasks, mainVars>>

\* the UTF-8 planner called with a chunk size of its own
PlanUtf8 ==
    /\ op = "none"
    /\ \E cs \in 1..MaxChunk :
        /\ chunk_size' = cs
        /\ result' = find_utf8_chunk_boundaries(data, cs)
    /\ op' = "find_utf8_chunk_boundaries"
    /\ UNCHANGED <<data, pattern, tasks, mainVars>>

NextText ==
    \/ CountAllWords
    \/ CountChars
    \/ CountUniqueWords
    \/ PlanUtf8

SpecText == InitText /\ [][NextText]_vars

----------------------------------------------------------------------------
(* Claims about text buffers *)

\* the buffer went down the chunked path and was cut into several chunks
SeveralChunks == Len(find_utf8_chunk_boundaries(data, CHUNK_SIZE)) >= 3

\* C1: for every buffer, valid UTF-8 or not and whatever its whitespace,
\* count_all_words returns what one sequential word scan of the whole
\* buffer returns.
C1_WordsChunkedEqualsSequential ==
    op = "count_all_words" => result = count_words_in_chunk(data)

\* C4: for every valid UTF-8 buffer, count_unique_words returns the number
\* of distinct whitespace-delimited tokens of the whole buffer.
C4_UniqueWordsOfWholeBuffer ==
    (op = "count_unique_words" /\ is_utf8(data))
        => result = Cardinality(WordSet(data))

\* C5: for every buffer that is not valid UTF-8, of any size, count_chars
\* returns the byte length of the buffer.
C5_InvalidUtf8CharsIsByteLength ==
    (op = "count_chars" /\ ~is_utf8(data)) => result = Len(data)

\* C6: for every valid UTF-8 buffer, count_chars returns the number of
\* bytes that are not continuation bytes, which is the number of scalar
\* values of the whole buffer.
C6_CharsOfValidUtf8 ==
    (op = "count_chars" /\ is_utf8(data))
        => /\ result = Cardinality({k \in 1..Len(data) : ~is_continuation(data[k])})
           /\ result = Len(chars(data))

\* C6 witness: a valid buffer cut into several chunks, with multi-byte
\* characters, one of them at the nominal cut.
C6_Witness ==
    /\ op = "count_chars"
    /\ is_utf8(data)
    /\ SeveralChunks
    /\ is_continuation(At(data, CHUNK_SIZE))
    /\ result < Len(data)
    /\ result > 2

\* C9 as stated: no boundary offset smaller than the buffer length points
\* at a continuation byte; and when the whole buffer is valid UTF-8 every
\* chunk is valid UTF-8 and the chunk-wise decodes, concatenated, are the
\* decode of the whole buffer.
C9_NoBoundaryAtContinuation ==
    op = "find_utf8_chunk_boundaries"
        => /\ \A k \in 1..Len(result) :
                result[k] < Len(data) => ~is_continuation(At(data, result[k]))
           /\ is_utf8(data)
                => LET cks == ChunksOf(data, result)
                   IN  /\ \A k \in 1..Len(cks) : is_utf8(cks[k])
                       /\ Flatten([k \in 1..Len(cks) |-> chars(cks[k])])
                            = chars(data)

\* C9 amended: the same for every boundary offset other than the first (0),
\* which is a boundary whatever byte the buffer starts with.
C9_NoLaterBoundaryAtContinuation ==
    op = "find_utf8_chunk_boundaries"
        => /\ \A k \in 2..Len(result) :
                result[k] < Len(data) => ~is_continuation(At(data, result[k]))
           /\ is_utf8(data)
                => LET cks == ChunksOf(data, result)
                   IN  /\ \A k \in 1..Len(cks) : is_utf8(cks[k])
                       /\ Flatten([k \in 1..Len(cks) |-> chars(cks[k])])
                            = chars(data)

\* C9 witness: a valid buffer with a three-byte character whose second
\* byte is at the nominal cut, so that the boundary moved by two bytes and
\* there still is a chunk after it.
C9_Witness ==
    /\ op = "find_utf8_chunk_boundaries"
    /\ is_utf8(data)
    /\ Len(result) >= 3
    /\ result[2] = chunk_size + 2
    /\ result[2] < Len(data)

----------------------------------------------------------------------------
(* The planners on their own *)

\* 'a', '\n', a continuation byte and a two-byte lead
PlanPieces == {<<97>>, <<10>>, <<160>>, <<194>>}

PlanBuffers == Concats(PlanPieces, MaxPlanPieces)

InitPlan ==
    /\ data \in PlanBuffers
    /\ pattern = << >>
    /\ chunk_size = CHUNK_SIZE
    /\ op = "none"
    /\ result = 0
    /\ tasks = << >>
    /\ NoProcess

\* the line planner called with a chunk size of its own
PlanLines ==
    /\ op = "none"
    /\ \E cs \in 1..MaxChunk :
        /\ chunk_size' = cs
        /\ result' = find_line_boundaries(data, cs)
    /\ op' = "find_line_boundaries"
    /\ UNCHANGED <<data, pattern, tasks, mainVars>>

NextPlan ==
    \/ PlanUtf8
    \/ PlanLines

SpecPlan == InitPlan /\ [][NextPlan]_vars

\* C8: the offsets returned by either planner start with 0, end with the
\* buffer length and are strictly increasing, so the chunks are non-empty
\* and, put end to end, are the buffer.
C8_OffsetsPartitionBuffer ==
    op \in {"find_utf8_chunk_boundaries", "find_line_boundaries"}
        => /\ Len(result) >= 1
           /\ result[1] = 0
           /\ result[Len(result)] = Len(data)
           /\ \A k \in 1..(Len(result) - 1) : result[k] < result[k + 1]
           /\ Flatten(ChunksOf(data, result)) = data

\* C8 witness: the line planner found no terminator after the last nominal
\* cut, so the loop itself pushed the buffer length, after an earlier
\* boundary that it had moved forward.
C8_Witness ==
    /\ op = "find_line_boundaries"
    /\ Len(result) >= 3
    /\ result[2] > chunk_size
    /\ result[Len(result) - 1] + chunk_size < Len(data)
    /\ At(data, Len(data) - 1) # 10

\* C10: every offset of the line planner other than the first and the last
\* immediately follows a '\n'; every chunk but the last ends with '\n' and
\* every chunk starts at the start of a record.
C10_LineBoundariesFollowNewline ==
    op = "find_line_boundaries"
        => /\ \A k \in 2..(Len(result) - 1) : At(data, result[k] - 1) = 10
           /\ LET cks == ChunksOf(data, result)
              IN  /\ \A k \in 1..(Len(cks) - 1) : cks[k][Len(cks[k])] = 10
                  /\ \A k \in 1..Len(cks) :
                        result[k] = 0 \/ At(data, result[k] - 1) = 10

\* C10 witness: two inner boundaries, both moved forward to the end of the
\* record that the nominal cut fell into.
C10_Witness ==
    /\ op = "find_line_boundaries"
    /\ Len(result) >= 4
    /\ result[2] > chunk_size
    /\ result[3] > result[2] + chunk_size

----------------------------------------------------------------------------
(* Operations on buffers of records *)

\* 'a', ' ', '\r', '\n' and a run of nine 'a' (records of 10 bytes and more
\* fall into the histogram buckets above 0)
LinePieces ==
    {<<97>>, <<32>>, <<13>>, <<10>>, <<97, 97, 97, 97, 97, 97, 97, 97, 97>>}

LineBuffers == Concats(LinePieces, MaxLinePieces)

InitLines ==
    /\ data \in LineBuffers
    /\ pattern = << >>
    /\ chunk_size = CHUNK_SIZE
    /\ op = "none"
    /\ result = 0
    /\ tasks = << >>
    /\ NoProcess

CountLines ==
    /\ op = "none"
    /\ op' = "count_lines"
    /\ result' = count_lines(data)
    /\ UNCHANGED <<data, pattern, chunk_size, tasks, mainVars>>

CountBlankLines ==
    /\ op = "none"
    /\ op' = "count_blank_lines"
    /\ result' = count_blank_lines(data)
    /\ UNCHANGED <<data, pattern, chunk_size, tasks, mainVars>>

MaxLineLength ==
    /\ op = "none"
    /\ op' = "max_line_length"
    /\ result' = max_line_length(data)
    /\ UNCHANGED <<data, pattern, chunk_size, tasks, mainVars>>

GenerateHistogram ==
    /\ op = "none"
    /\ op' = "generate_histogram"
    /\ result' = generate_histogram(data)
    /\ UNCHANGED <<data, pattern, chunk_size, tasks, mainVars>>

\* the first step of calculate_statistics on a non-empty buffer: the
\* line-length list
CollectLineLengths ==
    /\ op = "none"
    /\ data # << >>
    /\ op' = "line_lengths"
    /\ result' = line_lengths(data)
    /\ UNCHANGED <<data, pattern, chunk_size, tasks, mainVars>>

CalculateStatistics ==
    /\ op = "none"
    /\ op' = "calculate_statistics"
    /\ result' = calculate_statistics(data)
    /\ UNCHANGED <<data, pattern, chunk_size, tasks, mainVars>>

NextLines ==
    \/ CountLines
    \/ CountBlankLines
    \/ MaxLineLength
    \/ GenerateHistogram
    \/ CollectLineLengths
    \/ CalculateStatistics

SpecLines == InitLines /\ [][NextLines]_vars

\* C7: every line-based statistic, computed per chunk and reduced, is the
\* statistic computed by one scan of the whole buffer: the number of '\n'
\* bytes, the blank lines, the maximum line length, the histogram and the
\* line-length list.
C7_LineStatisticsChunkedEqualsWhole ==
    /\ op = "count_lines"
        => result = Cardinality({k \in 1..Len(data) : data[k] = 10})
    /\ op = "count_blank_lines" => result = count_blank_lines_chunk(data)
    /\ op = "max_line_length" => result = max_line_length_chunk(data)
    /\ op = "generate_histogram" => result = generate_histogram_chunk(data)
    /\ op = "line_lengths" => result = collect_line_lengths_chunk(data)

\* C7 witness: a histogram built from several chunks, the first nominal cut
\* inside a record ended by "\r\n", records in two buckets.
C7_Witness ==
    /\ op = "generate_histogram"
    /\ Len(find_line_boundaries(data, CHUNK_SIZE)) >= 3
    /\ find_line_boundaries(data, CHUNK_SIZE)[2] > CHUNK_SIZE + 1
    /\ At(data, find_line_boundaries(data, CHUNK_SIZE)[2] - 2) = 13
    /\ Cardinality(DOMAIN result) >= 2

\* the offsets of the '\n' bytes of the buffer
Terminators == {i \in 0..(Len(data) - 1) : At(data, i) = 10}

\* the offset at which the record ended by the terminator at t starts
RecordStart(t) ==
    IF \E u \in Terminators : u < t
    THEN 1 + CHOOSE u \in Terminators :
                u < t /\ \A v \in Terminators : v < t => v <= u
    ELSE 0

\* the offset after the last terminator
TailStart ==
    IF Terminators = {} THEN 0
    ELSE 1 + CHOOSE u \in Terminators : \A v \in Terminators : v <= u

\* the n-th terminator, n from 1
RECURSIVE NthTerminator(_)
NthTerminator(n) ==
    IF n = 1 THEN CHOOSE u \in Terminators : \A v \in Terminators : u <= v
    ELSE CHOOSE u \in Terminators :
            /\ u > NthTerminator(n - 1)
            /\ \A v \in Terminators : v > NthTerminator(n - 1) => u <= v

\* the record lengths the claim describes: the bytes between terminators,
\* less a '\r' that immediately precedes the '\n'; the bytes after the last
\* terminator, all of them, when there is at least one
ClaimedLengths ==
    [n \in 1..Cardinality(Terminators) |->
        LET t == NthTerminator(n)
            b == RecordStart(t)
        IN  IF t > b /\ At(data, t - 1) = 13 THEN t - 1 - b ELSE t - b]
    \o (IF TailStart < Len(data) THEN <<Len(data) - TailStart>> ELSE << >>)

\* the histogram of a list of lengths
ClaimedHistogram(lens) ==
    [b \in {(lens[k] \div 10) * 10 : k \in 1..Len(lens)} |->
        Cardinality({k \in 1..Len(lens) : (lens[k] \div 10) * 10 = b})]

\* C11: in max_line_length, the line-length list and the histogram a
\* record's length excludes the '\n' and a '\r' only when that '\r'
\* immediately precedes the '\n'; a final record with no terminator is
\* included exactly when it has at least one byte.
C11_RecordLengthExcludesCrOnlyBeforeLf ==
    /\ op = "line_lengths" => result = ClaimedLengths
    /\ op = "max_line_length" => result = MaxSeq(ClaimedLengths)
    /\ op = "generate_histogram" => result = ClaimedHistogram(ClaimedLengths)

\* twice the median of a sorted list: the central value twice for an odd
\* count, the sum of the two central values for an even count
TwiceMedian(sorted) ==
    IF Len(sorted) % 2 = 0
    THEN sorted[Len(sorted) \div 2] + sorted[Len(sorted) \div 2 + 1]
    ELSE 2 * sorted[Len(sorted) \div 2 + 1]

\* C12: the median is the single central value of the sorted line lengths
\* for an odd count and the average of the two central values for an even
\* count, without rounding (twice the median of [1,2,3,4] is 5).
C12_MedianIsExactAverage ==
    (op = "calculate_statistics" /\ line_lengths(data) # << >>)
        => 2 * result.median_line_length = TwiceMedian(Sort(line_lengths(data)))

----------------------------------------------------------------------------
(* Pattern search *)

\* all sequences over A of length at most n
RECURSIVE SeqsUpTo(_, _)
SeqsUpTo(A, n) ==
    IF n = 0 THEN {<< >>}
    ELSE LET shorter == SeqsUpTo(A, n - 1)
         IN  shorter \cup {Append(s, a) : s \in shorter, a \in A}

\* 'a' and 'b'
PatternBytes == {97, 98}

InitPattern ==
    /\ data \in SeqsUpTo(PatternBytes, MaxHaystack)
    /\ pattern \in SeqsUpTo(PatternBytes, MaxPattern)
    /\ chunk_size = CHUNK_SIZE
    /\ op = "none"
    /\ result = 0
    /\ tasks = << >>
    /\ NoProcess

CountPattern ==
    /\ op = "none"
    /\ op' = "count_pattern"
    /\ result' = count_pattern(data, pattern)
    /\ UNCHANGED <<data, pattern, chunk_size, tasks, mainVars>>

NextPattern ==
    \/ CountPattern

SpecPattern == InitPattern /\ [][NextPattern]_vars

\* offset o, the start of an occurrence, is such that the occurrence has
\* bytes on both sides of an inner chunk boundary
Spans(o) ==
    \E i \in 1..(NumChunks(data) - 1) :
        o < i * CHUNK_SIZE /\ o + Len(pattern) > i * CHUNK_SIZE

\* the occurrences of the left-to-right search of the whole buffer that
\* span a boundary
SpanningFound ==
    LET found == find_iter(data, pattern)
    IN  {k \in 1..Len(found) : Spans(found[k])}

\* every offset at which the pattern occurs and spans a boundary
SpanningAnywhere ==
    {o \in 0..Len(data) : MatchAt(data, pattern, o) /\ Spans(o)}

\* C2: each occurrence that spans a chunk boundary contributes exactly one
\* to count_pattern: what the result has on top of the occurrences lying
\* inside the chunks is the number of spanning occurrences, whether the
\* occurrences are those of the whole-buffer search or all the offsets at
\* which the pattern occurs.
C2_SpanningOccurrenceCountedOnce ==
    (op = "count_pattern" /\ pattern # << >> /\ Len(data) >= PARALLEL_THRESHOLD)
        => \/ result - PatternChunkCount(data, pattern)
                = Cardinality(SpanningFound)
           \/ result - PatternChunkCount(data, pattern)
                = Cardinality(SpanningAnywhere)

\* C3: for every buffer and every non-empty pattern, count_pattern returns
\* the number of occurrences found by one left-to-right search of the
\* whole buffer.
C3_PatternCountOfWholeBuffer ==
    (op = "count_pattern" /\ pattern # << >>)
        => result = Len(find_iter(data, pattern))

----------------------------------------------------------------------------
(* Every statistic on one buffer *)

\* 'a', ' ' and '\n'
AnyBytes == {97, 32, 10}

InitAny ==
    /\ data \in SeqsUpTo(AnyBytes, MaxAnyLen)
    /\ pattern \in SeqsUpTo({97}, MaxAnyPattern)
    /\ chunk_size = CHUNK_SIZE
    /\ op = "none"
    /\ result = 0
    /\ tasks = << >>
    /\ NoProcess

NextAny ==
    \/ CountLines
    \/ CountBlankLines
    \/ CountAllWords
    \/ CountChars
    \/ MaxLineLength
    \/ CountUniqueWords
    \/ CountPattern
    \/ CalculateStatistics
    \/ GenerateHistogram

SpecAny == InitAny /\ [][NextAny]_vars

\* C13: on the empty buffer every statistic returns its zero value: the
\* counts are 0, the histogram has no bucket, every field of the statistics
\* is zero; and count_pattern with an empty pattern returns 0 for any buffer.
C13_EmptyInputGivesZero ==
    /\ (data = << >> /\ op \in {"count_lines", "count_blank_lines",
            "count_all_words", "count_chars", "max_line_length",
            "count_unique_words", "count_pattern"})
        => result = 0
    /\ (data = << >> /\ op = "generate_histogram") => DOMAIN result = {}
    /\ (data = << >> /\ op = "calculate_statistics")
        => /\ result.mean_line_length[1] = 0
           /\ result.variance[1] = 0
           /\ result.median_line_length = 0
           /\ result.min_line_length = 0
           /\ result.max_line_length = 0
           /\ result.empty_lines = 0
    /\ (op = "count_pattern" /\ pattern = << >>) => result = 0

\* C13 witness: the empty pattern counted in a buffer that is not empty.
C13_Witness ==
    /\ op = "count_pattern"
    /\ pattern = << >>
    /\ Len(data) >= PARALLEL_THRESHOLD
    /\ result = 0

----------------------------------------------------------------------------
(* The comment filter on source text *)

\* 'x', ' ', '\n' and the seven markers
CodePieces ==
    {<<120>>, <<32>>, <<10>>, Slash2, Hash, Dash2, BlockOpen, BlockClose,
     DocDouble, DocSingle}

InitCode ==
    /\ data \in Concats(CodePieces, MaxCodePieces)
    /\ pattern = << >>
    /\ chunk_size = CHUNK_SIZE
    /\ op = "none"
    /\ result = 0
    /\ tasks = << >>
    /\ NoProcess

FilterCodeComments ==
    /\ op = "none"
    /\ op' = "filter_code_comments"
    /\ result' = filter_code_comments(data)
    /\ UNCHANGED <<data, pattern, chunk_size, tasks, mainVars>>

NextCode == FilterCodeComments

SpecCode == InitCode /\ [][NextCode]_vars

LineOpeners == {Slash2, Hash, Dash2}

\* every "//", "#" or "--" of the line follows a non-whitespace character
Unguarded(line) ==
    \A m \in LineOpeners : \A i \in 0..Len(line) :
        MatchAt(line, m, i) => i > 0 /\ ~is_whitespace(At(line, i - 1))

\* the text has no block-comment opener and no docstring delimiter
NoBlocks(text) ==
    /\ find(text, BlockOpen) = -1
    /\ find(text, DocDouble) = -1
    /\ find(text, DocSingle) = -1

\* the lines with their trailing whitespace removed, blank lines dropped
KeptWhole(ls) ==
    Flatten([k \in 1..Len(ls) |->
                IF trim(ls[k]) # << >> THEN trim_end(ls[k]) \o <<10>> ELSE << >>])

\* C14: outside block comments and docstrings a "//", "#" or "--" is taken
\* as a line-comment opener only at the first character of the line or
\* after a whitespace character of the line; and a line whose openers all
\* follow a non-whitespace character is kept as content.
C14_LineOpenerNeedsWhitespaceBefore ==
    (op = "filter_code_comments" /\ is_utf8(data)) =>
        LET text == chars(data)
            f == FilterCode(text)
        IN  /\ \A k \in 1..Len(f.openers) :
                   LET line == f.openers[k][1]
                       o == f.openers[k][2]
                   IN  o = 0 \/ is_whitespace(At(line, o - 1))
            /\ (NoBlocks(text) /\ \A k \in 1..Len(lines(text)) :
                                      Unguarded(lines(text)[k]))
                  => result = as_bytes(KeptWhole(lines(text)))

\* some char of the text is not whitespace
HasResidue(cs) == \E i \in 1..Len(cs) : ~is_whitespace(cs[i])

\* C15: a line is emitted exactly when what is left of it after stripping
\* has a non-whitespace character (the output is the residues that have
\* one, in order, each ended by '\n'); so no line of the output is empty
\* or made of whitespace only.
C15_EmittedIffResidue ==
    (op = "filter_code_comments" /\ is_utf8(data)) =>
        LET residues == FilterCode(chars(data)).residues
            out == lines(chars(result))
        IN  /\ result = as_bytes(Flatten([k \in 1..Len(residues) |->
                            IF HasResidue(residues[k])
                            THEN trim_end(residues[k]) \o <<10>> ELSE << >>]))
            /\ Len(out) = Cardinality({k \in 1..Len(residues) :
                                          HasResidue(residues[k])})
            /\ \A k \in 1..Len(out) : HasResidue(out[k])

\* C15 witness: a blank line, a line that is all comment and a line with
\* content, of which only the last is written.
C15_Witness ==
    /\ op = "filter_code_comments"
    /\ is_utf8(data)
    /\ LET ls == lines(chars(data))
           residues == FilterCode(chars(data)).residues
       IN  /\ \E k \in 1..Len(ls) : ls[k] = << >>
           /\ \E k \in 1..Len(ls) : ls[k] # << >> /\ residues[k] = << >>
           /\ \E k \in 1..Len(ls) : HasResidue(residues[k])
           /\ Len(lines(chars(result))) = 1

----------------------------------------------------------------------------
(* Both filters on markdown text and on bytes that are not text *)

\* 'x', ' ', '`', a fence, '#', '\n', "\r\n" and the byte 0xFF, which no
\* UTF-8 text contains
FilterPieces ==
    {<<120>>, <<32>>, <<96>>, Fence, Hash, <<10>>, <<13, 10>>, <<255>>}

InitFilters ==
    /\ data \in Concats(FilterPieces, MaxFilterPieces)
    /\ pattern = << >>
    /\ chunk_size = CHUNK_SIZE
    /\ op = "none"
    /\ result = 0
    /\ tasks = << >>
    /\ NoProcess

FilterMarkdownCode ==
    /\ op = "none"
    /\ op' = "filter_markdown_code"
    /\ result' = filter_markdown_code(data)
    /\ UNCHANGED <<data, pattern, chunk_size, tasks, mainVars>>

NextFilters == FilterCodeComments \/ FilterMarkdownCode

SpecFilters == InitFilters /\ [][NextFilters]_vars

\* C16: on input that is not valid UTF-8 each filter returns the input
\* byte for byte, and no step of a filter changes the input buffer.
C16_InvalidUtf8PassesThrough ==
    /\ []((op \in {"filter_code_comments", "filter_markdown_code"}
             /\ ~is_utf8(data)) => result = data)
    /\ [][data' = data]_vars

\* C16 witness: the markdown filter has returned bytes that are not text
\* and that it would have changed had they been text.
C16_Witness ==
    /\ op = "filter_markdown_code"
    /\ ~is_utf8(data)
    /\ \E i \in 1..Len(data) : data[i] = 96
    /\ result = data

\* the terminator each line of the text had: "\n", "\r\n" or none
RECURSIVE TermLoop(_, _, _, _)
TermLoop(cs, i, cur, acc) ==
    IF i > Len(cs) THEN (IF cur = << >> THEN acc ELSE Append(acc, << >>))
    ELSE IF cs[i] = 10
    THEN TermLoop(cs, i + 1, << >>,
                  Append(acc, IF cur # << >> /\ cur[Len(cur)] = 13
                              THEN <<13, 10>> ELSE <<10>>))
    ELSE TermLoop(cs, i + 1, Append(cur, cs[i]), acc)

LineTerminators(cs) == TermLoop(cs, 1, << >>, << >>)

IsFence(line) == starts_with(trim(line), Fence)

\* line k is neither a fence nor inside a fenced block
KeptLine(ls, k) ==
    /\ ~IsFence(ls[k])
    /\ Cardinality({j \in 1..(k - 1) : IsFence(ls[j])}) % 2 = 0

\* C17: the output is the kept lines in input order, each without its
\* inline code and ended by the terminator it had in the input.
C17_MarkdownKeepsTerminators ==
    (op = "filter_markdown_code" /\ is_utf8(data)) =>
        LET ls == lines(chars(data))
            ts == LineTerminators(chars(data))
        IN  result = as_bytes(Flatten([k \in 1..Len(ls) |->
                        IF KeptLine(ls, k)
                        THEN filter_inline_code(ls[k]) \o ts[k] ELSE << >>]))

----------------------------------------------------------------------------
(* The chunk tasks of one chunked call *)

\* 'a', ' ', '\n' and the two bytes of U+00E9
ParPieces == {<<97>>, <<32>>, <<10>>, <<195, 169>>}

ChunkedKinds == {"count_all_words", "calculate_statistics"}

\* the boundaries the call plans before it starts its tasks
Boundaries(kind, s) ==
    IF kind = "count_all_words" THEN find_utf8_chunk_boundaries(s, CHUNK_SIZE)
    ELSE find_line_boundaries(s, CHUNK_SIZE)

\* the closure run by task k: it reads its window of the boundaries and
\* its slice of the buffer
ChunkTask(kind, s, k) ==
    LET bs == Boundaries(kind, s)
        chunk == Slice(s, bs[k], bs[k + 1])
    IN  IF kind = "count_all_words" THEN count_words_in_chunk(chunk)
        ELSE collect_line_lengths_chunk(chunk)

\* what the call makes of the tasks' results, taken in slot order
Merge(kind, s, values) ==
    IF kind = "count_all_words"
    THEN saturating_sub(SumSeq(values), Overcounted(s, Boundaries(kind, s)))
    ELSE StatisticsOf(Flatten(values))

InitPar ==
    /\ data \in Concats(ParPieces, MaxParPieces)
    /\ pattern = << >>
    /\ chunk_size = CHUNK_SIZE
    /\ op = "none"
    /\ result = 0
    /\ tasks = << >>
    /\ NoProcess

\* the call takes the chunked path: it plans the boundaries and hands one
\* task for each window to the pool
StartChunked(kind) ==
    /\ op = "none"
    /\ Len(data) >= PARALLEL_THRESHOLD
    /\ op' = kind
    /\ tasks' = [k \in 1..(Len(Boundaries(kind, data)) - 1) |->
                    [state |-> "pending"]]
    /\ UNCHANGED <<data, pattern, chunk_size, result, mainVars>>

\* a worker picks up task k
StartTask(k) ==
    /\ op \in ChunkedKinds
    /\ k \in DOMAIN tasks
    /\ tasks[k].state = "pending"
    /\ tasks' = [tasks EXCEPT ![k] = [state |-> "running"]]
    /\ UNCHANGED <<engineVars, mainVars>>

\* task k returns as if it had taken the next chunk not yet finished
FinishTask_shared(k) ==
    /\ op \in ChunkedKinds
    /\ k \in DOMAIN tasks
    /\ tasks[k].state = "running"
    /\ tasks' = [tasks EXCEPT ![k] =
            [state |-> "done",
             value |-> ChunkTask(op, data,
                 1 + Cardinality({j \in DOMAIN tasks : tasks[j].state = "done"}))]]
    /\ UNCHANGED <<engineVars, mainVars>>

\* task k returns: its result goes to slot k
FinishTask(k) ==
    /\ op \in ChunkedKinds
    /\ k \in DOMAIN tasks
    /\ tasks[k].state = "running"
    /\ tasks' = [tasks EXCEPT ![k] =
                    [state |-> "done", value |-> ChunkTask(op, data, k)]]
    /\ UNCHANGED <<engineVars, mainVars>>

\* every task has returned: the call reduces the results and returns
Reduce ==
    /\ op \in ChunkedKinds
    /\ tasks # << >>
    /\ \A k \in DOMAIN tasks : tasks[k].state = "done"
    /\ result' = Merge(op, data, [k \in DOMAIN tasks |-> tasks[k].value])
    /\ tasks' = << >>
    /\ UNCHANGED <<data, pattern, chunk_size, op, mainVars>>

NextPar ==
    \/ \E kind \in ChunkedKinds : StartChunked(kind)
    \/ \E k \in DOMAIN tasks : StartTask(k)
    \/ \E k \in DOMAIN tasks : FinishTask(k)
    \/ Reduce

SpecPar == InitPar /\ [][NextPar]_vars

----------------------------------------------------------------------------
(* The candidates of the planners *)

Planners == {"find_utf8_chunk_boundaries", "find_line_boundaries"}

\* the first offset at or after c that is not a continuation byte, the
\* buffer length if there is none
FirstNonContinuation(s, c) ==
    LET ok == {p \in c..(Len(s) - 1) : ~is_continuation(At(s, p))}
    IN  IF ok = {} THEN Len(s) ELSE CHOOSE p \in ok : \A q \in ok : p <= q

\* the offset just after the first '\n' at or after c, the buffer length
\* if there is none
AfterNewline(s, c) ==
    LET nls == {p \in c..(Len(s) - 1) : At(s, p) = 10}
    IN  IF nls = {} THEN Len(s) ELSE (CHOOSE p \in nls : \A q \in nls : p <= q) + 1

\* where a planner puts the boundary for the candidate c
Advance(planner, s, c) ==
    IF planner = "find_utf8_chunk_boundaries" THEN FirstNonContinuation(s, c)
    ELSE AfterNewline(s, c)

\* C20 as stated: the k-th boundary is the advance of the k-th multiple of
\* the chunk size, whatever the boundaries before it.
C20_KthCandidateIsKthMultiple ==
    op \in Planners =>
        \A k \in 1..(Len(result) - 1) :
            k * chunk_size < Len(data)
                => result[k + 1] = Advance(op, data, k * chunk_size)

\* C20 amended: the candidate of a boundary is the boundary before it plus
\* the chunk size (the first candidate is the chunk size); while the
\* candidate lies inside the buffer the boundary is its advance, and the
\* first candidate at or past the end closes the list with the length.
C20_CandidateFollowsPreviousBoundary ==
    op \in Planners =>
        \A k \in 1..(Len(result) - 1) :
            IF result[k] + chunk_size < Len(data)
            THEN result[k + 1] = Advance(op, data, result[k] + chunk_size)
            ELSE result[k + 1] = Len(data) /\ k + 1 = Len(result)

\* C20 witness: the first boundary was moved forward and the second one
\* is not where the second multiple of the chunk size would have put it.
C20_Witness ==
    /\ op = "find_utf8_chunk_boundaries"
    /\ Len(result) >= 4
    /\ result[2] > chunk_size
    /\ 2 * chunk_size < Len(data)
    /\ result[3] # Advance(op, data, 2 * chunk_size)

----------------------------------------------------------------------------
(* One run of the program *)

\* The run is modelled with the default counts (lines, words, bytes), no
\* --exclude, no --json, no --progress and text files; a file's content is
\* held as the counts process_data returns for it.

\* the file system: a file, a missing path, and a directory with one file
FileSystem ==
    [a |-> [kind |-> "file", entries |-> << >>,
            counts |-> [lines |-> 2, words |-> 3, max_line_length |-> 7]],
     m |-> [kind |-> "missing", entries |-> << >>,
            counts |-> [lines |-> 0, words |-> 0, max_line_length |-> 0]],
     d |-> [kind |-> "dir", entries |-> <<"b">>,
            counts |-> [lines |-> 0, words |-> 0, max_line_length |-> 0]],
     b |-> [kind |-> "file", entries |-> << >>,
            counts |-> [lines |-> 1, words |-> 5, max_line_length |-> 4]]]

\* the paths a user names
Paths == {"a", "m", "d"}

\* --files0-from: absent, a list that cannot be read, or a list of names
Files0Options ==
    {[given |-> FALSE, readable |-> FALSE, names |-> << >>],
     [given |-> TRUE, readable |-> FALSE, names |-> << >>]}
    \cup {[given |-> TRUE, readable |-> TRUE, names |-> ns] :
              ns \in SeqsUpTo(Paths, MaxListed)}

InitMain ==
    /\ args \in [files : SeqsUpTo(Paths, MaxArgFiles),
                 files0_from : Files0Options,
                 generate_completion : BOOLEAN,
                 verbose : BOOLEAN,
                 recursive : BOOLEAN]
    /\ fs = FileSystem
    /\ files = << >>
    /\ stderr = << >>
    /\ stdout = << >>
    /\ exit_code = -1
    /\ pc = "start"
    /\ tasks = << >>
    /\ data = << >>
    /\ pattern = << >>
    /\ chunk_size = CHUNK_SIZE
    /\ op = "none"
    /\ result = 0

Ok(v) == [ok |-> TRUE, value |-> v]

Err(kind, message) == [ok |-> FALSE, kind |-> kind, message |-> message]

\* read_files_from_file
read_files_from_file(files0) ==
    IF files0.readable THEN Ok(files0.names)
    ELSE Err("NotFound", "No such file or directory")

\* the loop of collect_files over the paths of the command line
RECURSIVE CollectLoop(_, _, _, _)
CollectLoop(a, f, i, all_files) ==
    IF i > Len(a.files) THEN Ok(all_files)
    ELSE LET path_str == a.files[i]
         IN  IF f[path_str].kind = "missing"
             THEN Err("NotFound", "No such file or directory")
             ELSE IF f[path_str].kind = "file"
             THEN CollectLoop(a, f, i + 1, Append(all_files, path_str))
             ELSE IF ~a.recursive
             THEN Err("InvalidInput", "Is a directory (use -r for recursive)")
             ELSE CollectLoop(a, f, i + 1, all_files \o f[path_str].entries)

\* collect_files: the listed names as they are, then the command line
collect_files(a, f) ==
    IF a.files0_from.given
    THEN LET listed == read_files_from_file(a.files0_from)
         IN  IF listed.ok THEN CollectLoop(a, f, 1, listed.value) ELSE listed
    ELSE CollectLoop(a, f, 1, << >>)

\* process_file: the counts of a file, or the error of opening or reading
process_file(f, path) ==
    IF f[path].kind = "file" THEN Ok(f[path].counts)
    ELSE IF f[path].kind = "missing"
    THEN Err("NotFound", "No such file or directory")
    ELSE Err("IsADirectory", "Is a directory")

\* Counts::new
NewCounts == [lines |-> 0, words |-> 0, max_line_length |-> 0]

\* Counts::add
add(self, other) ==
    [lines |-> self.lines + other.lines,
     words |-> self.words + other.words,
     max_line_length |-> Max(self.max_line_length, other.max_line_length)]

Exit(code) == pc' = "exit" /\ exit_code' = code

\* --generate-completion: the script is printed and main returns
GenerateCompletion ==
    /\ pc = "start"
    /\ args.generate_completion
    /\ stdout' = <<[path |-> "completion"]>>
    /\ Exit(0)
    /\ UNCHANGED <<engineVars, tasks, args, fs, files, stderr>>

\* no path and no list: the input is stdin, which is a terminal, or is
\* read and counted, or fails to be read
ReadStdin ==
    /\ pc = "start"
    /\ ~args.generate_completion
    /\ args.files = << >>
    /\ ~args.files0_from.given
    /\ \E outcome \in {"atty", "ok", "error"} :
          IF outcome = "ok"
          THEN /\ stdout' = <<[path |-> "", counts |-> FileSystem.a.counts]>>
               /\ Exit(0)
               /\ UNCHANGED stderr
          ELSE /\ stderr' = <<[path |-> "stdin", kind |-> outcome]>>
               /\ Exit(1)
               /\ UNCHANGED stdout
    /\ UNCHANGED <<engineVars, tasks, args, fs, files>>

\* the files are collected; an error or an empty list ends the run
CollectFiles ==
    /\ pc = "start"
    /\ ~args.generate_completion
    /\ args.files # << >> \/ args.files0_from.given
    /\ LET collected == collect_files(args, fs)
       IN  IF ~collected.ok
           THEN /\ stderr' = <<[path |-> "", kind |-> collected.kind]>>
                /\ Exit(1)
                /\ UNCHANGED <<files, tasks>>
           ELSE IF collected.value = << >>
           THEN /\ stderr' = <<[path |-> "", kind |-> "no files to process"]>>
                /\ Exit(1)
                /\ UNCHANGED <<files, tasks>>
           ELSE /\ files' = collected.value
                /\ tasks' = [k \in 1..Len(collected.value) |-> [state |-> "pending"]]
                /\ pc' = "process"
                /\ UNCHANGED <<stderr, exit_code>>
    /\ UNCHANGED <<engineVars, args, fs, stdout>>

\* the rank at which the next worker finishes (kept for the claims; the
\* program keeps no such record)
NextRank == 1 + Cardinality({j \in DOMAIN tasks : tasks[j].state = "done"})

\* the results are pushed to file_results as the workers finish
ProcessFile_as_completed(k) ==
    /\ pc = "process"
    /\ k \in DOMAIN tasks
    /\ tasks[k].state = "pending"
    /\ tasks' = [i \in DOMAIN tasks |->
                    [state    |-> IF i = k THEN "done" ELSE tasks[i].state,
                     finished |-> IF i = k THEN NextRank
                                  ELSE IF tasks[i].state = "done"
                                  THEN tasks[i].finished ELSE 0,
                     value    |-> IF i = NextRank
                                  THEN process_file(fs, files[k])
                                  ELSE IF i < NextRank
                                  THEN tasks[i].value ELSE Ok(NewCounts)]]
    /\ UNCHANGED <<engineVars, mainVars>>

\* one file is processed: the only one, or any one that a worker of the
\* pool takes; collect() puts the result at the index of the file
ProcessFile(k) ==
    /\ pc = "process"
    /\ k \in DOMAIN tasks
    /\ tasks[k].state = "pending"
    /\ tasks' = [tasks EXCEPT ![k] =
                    [state |-> "done", finished |-> NextRank,
                     value |-> process_file(fs, files[k])]]
    /\ UNCHANGED <<engineVars, mainVars>>

\* the loop of main over file_results: the total, had_error and what is
\* written to stderr
RECURSIVE ResultLoop(_, _, _, _, _)
ResultLoop(paths, results, verbose, k, acc) ==
    IF k > Len(results) THEN acc
    ELSE LET r == results[k]
             line == [path |-> paths[k], kind |-> r.kind]
         IN  ResultLoop(paths, results, verbose, k + 1,
                 IF r.ok
                 THEN [acc EXCEPT !.total = add(acc.total, r.value)]
                 ELSE IF r.kind = "NotFound"
                 THEN (IF verbose
                       THEN [acc EXCEPT !.stderr = Append(acc.stderr, line)]
                       ELSE acc)
                 ELSE [acc EXCEPT !.stderr = Append(acc.stderr, line),
                                  !.had_error = TRUE])

\* the lines printed for the files that were counted, in the order of
\* file_results
RECURSIVE PrintLoop(_, _, _)
PrintLoop(paths, results, k) ==
    IF k > Len(results) THEN << >>
    ELSE (IF results[k].ok
          THEN <<[path |-> paths[k], counts |-> results[k].value]>>
          ELSE << >>) \o PrintLoop(paths, results, k + 1)

\* every file has been processed: the errors are reported, the counts and
\* the total are printed and the run ends
Report ==
    /\ pc = "process"
    /\ \A k \in DOMAIN tasks : tasks[k].state = "done"
    /\ LET file_results == [k \in DOMAIN tasks |-> tasks[k].value]
           show_total == Len(files) > 1
           acc == ResultLoop(files, file_results, args.verbose, 1,
                      [total |-> NewCounts, had_error |-> FALSE, stderr |-> stderr])
       IN  /\ stderr' = acc.stderr
           /\ stdout' = PrintLoop(files, file_results, 1)
                  \o (IF show_total
                      THEN <<[path |-> "total", counts |-> acc.total]>>
                      ELSE << >>)
           /\ Exit(IF acc.had_error THEN 1 ELSE 0)
    /\ UNCHANGED <<engineVars, tasks, args, fs, files>>

NextMain ==
    \/ GenerateCompletion
    \/ ReadStdin
    \/ CollectFiles
    \/ \E k \in DOMAIN tasks : ProcessFile(k)
    \/ Report

SpecMain == InitMain /\ [][NextMain]_vars

\* a path named on the command line does not exist
MissingArgument ==
    \E i \in 1..Len(args.files) : fs[args.files[i]].kind = "missing"

\* a name listed through --files0-from does not exist
MissingListed ==
    /\ args.files0_from.given
    /\ args.files0_from.readable
    /\ \E i \in 1..Len(args.files0_from.names) :
          fs[args.files0_from.names[i]].kind = "missing"

\* C19: a run that counts files (no completion script was asked for) and
\* was given a path naming no existing file, on the command line or
\* through --files0-from, ends with a failure status and a message on
\* stderr.
C19_MissingPathFailsRun ==
    (pc = "exit" /\ ~args.generate_completion
                 /\ (MissingArgument \/ MissingListed))
        => exit_code # 0 /\ stderr # << >>

----------------------------------------------------------------------------
(* Open comments and docstrings *)

\* the first occurrence of the closer in the text that follows offset from
\* of line k: the line it is in and its offset there, <<0, 0>> if the text
\* ends before it
RECURSIVE FindCloser(_, _, _, _)
FindCloser(ls, k, from, closer) ==
    IF k > Len(ls) THEN <<0, 0>>
    ELSE LET p == find(Slice(ls[k], from, Len(ls[k])), closer)
         IN  IF p # -1 THEN <<k, from + p>>
             ELSE FindCloser(ls, k + 1, 0, closer)

\* a line of output: written if it has a residue
Emit(out, line_output) ==
    IF HasResidue(line_output) THEN out \o trim_end(line_output) \o <<10>>
    ELSE out

\* The filter as a scan that is always in Normal state: a block comment or
\* docstring opened at some place is skipped in one go, up to and
\* including the first occurrence of its own closer in the text after the
\* opener, whatever lies between; the scan goes on right after the closer,
\* and stops if there is no closer.
RECURSIVE SkipScan(_, _, _, _, _)
SkipScan(ls, k, from, line_output, out) ==
    IF k > Len(ls) THEN out
    ELSE LET current == Slice(ls[k], from, Len(ls[k]))
             ms == Markers(current)
         IN  IF ms = << >>
             THEN SkipScan(ls, k + 1, 0, << >>, Emit(out, line_output \o current))
             ELSE
             LET pos == min_by_key(ms)[1]
                 marker_type == min_by_key(ms)[2]
                 kept == line_output \o Slice(current, 0, pos)
                 closer == IF marker_type = "multi" THEN BlockClose
                           ELSE IF marker_type = "doc_double" THEN DocDouble
                           ELSE DocSingle
                 n == Len(closer)
                 c == FindCloser(ls, k, from + pos + n, closer)
             IN  IF marker_type \in {"single_slash", "single_hash", "single_dash"}
                 THEN SkipScan(ls, k + 1, 0, << >>, Emit(out, kept))
                 ELSE IF c = <<0, 0>> THEN Emit(out, kept)
                 ELSE IF c[1] = k THEN SkipScan(ls, k, c[2] + n, kept, out)
                 ELSE SkipScan(ls, c[1], c[2] + n, << >>, Emit(out, kept))

\* C21: once a block comment or a docstring is open nothing is emitted
\* until its own closer is read, across line ends and whatever other
\* delimiter or opener comes before it; the scan resumes in Normal state
\* right after the closer, and a text that ends while one is open loses
\* the rest.
C21_OpenUntilOwnCloser ==
    (op = "filter_code_comments" /\ is_utf8(data)) =>
        result = as_bytes(SkipScan(lines(chars(data)), 1, 0, << >>, << >>))

\* C21 witness: an opener on the first line, its closer on a later line
\* with content after it, which is all that is written.
C21_Witness ==
    /\ op = "filter_code_comments"
    /\ is_utf8(data)
    /\ LET ls == lines(chars(data))
       IN  /\ Len(ls) >= 2
           /\ \E m \in {BlockOpen, DocDouble, DocSingle} :
                /\ starts_with(ls[1], m)
                /\ FindCloser(ls, 1, Len(m),
                              IF m = BlockOpen THEN BlockClose ELSE m)[1] = 2
    /\ result = <<120, 10>>

\* the text has no line-comment opener and no docstring delimiter
OnlyBlocks(text) ==
    /\ \A m \in LineOpeners : find(text, m) = -1
    /\ find(text, DocDouble) = -1
    /\ find(text, DocSingle) = -1

\* the scan of a text that has block comments only, a "/*" opening one
\* wherever it stands
RECURSIVE BlockScan(_, _, _, _, _)
BlockScan(ls, k, from, line_output, out) ==
    IF k > Len(ls) THEN out
    ELSE LET current == Slice(ls[k], from, Len(ls[k]))
             pos == find(current, BlockOpen)
             kept == line_output \o Slice(current, 0, pos)
             c == FindCloser(ls, k, from + pos + 2, BlockClose)
         IN  IF pos = -1
             THEN BlockScan(ls, k + 1, 0, << >>, Emit(out, line_output \o current))
             ELSE IF c = <<0, 0>> THEN Emit(out, kept)
             ELSE IF c[1] = k THEN BlockScan(ls, k, c[2] + 2, kept, out)
             ELSE BlockScan(ls, c[1], c[2] + 2, << >>, Emit(out, kept))

\* C22: in Normal state a "/*" opens a block comment whatever character
\* stands before it: a text whose only markers are "/*" and "*/" loses
\* every block comment, as "x/* c */y" becomes "xy".
C22_BlockOpenerNeedsNoWhitespace ==
    (op = "filter_code_comments" /\ is_utf8(data) /\ OnlyBlocks(chars(data))) =>
        result = as_bytes(BlockScan(lines(chars(data)), 1, 0, << >>, << >>))

----------------------------------------------------------------------------
(* Fences and inline code *)

TicksBefore(line, i) == Cardinality({j \in 1..(i - 1) : line[j] = 96})

\* the chars of the line from i on that are no backtick and have an even
\* number of backticks of the line before them
RECURSIVE OutsideFrom(_, _)
OutsideFrom(line, i) ==
    IF i > Len(line) THEN << >>
    ELSE (IF line[i] # 96 /\ TicksBefore(line, i) % 2 = 0
          THEN <<line[i]>> ELSE << >>) \o OutsideFrom(line, i + 1)

\* C24: of a kept line the output has the chars that are no backtick and
\* lie outside the 1st-2nd, 3rd-4th, ... backtick pairs of that line; text
\* after an unpaired last backtick is removed to the end of the line, and
\* the count of backticks starts again with every line.
C24_InlineCodeRemovedPerLine ==
    (op = "filter_markdown_code" /\ is_utf8(data)) =>
        LET ls == lines(chars(data))
        IN  result = as_bytes(Flatten([k \in 1..Len(ls) |->
                        IF KeptLine(ls, k)
                        THEN OutsideFrom(ls[k], 1) \o <<10>> ELSE << >>]))

\* C24 witness: a kept line with one backtick and text after it, then a
\* kept line whose text is written.
C24_Witness ==
    /\ op = "filter_markdown_code"
    /\ is_utf8(data)
    /\ LET ls == lines(chars(data))
       IN  /\ Len(ls) = 2
           /\ KeptLine(ls, 1)
           /\ KeptLine(ls, 2)
           /\ TicksBefore(ls[1], Len(ls[1]) + 1) = 1
           /\ ls[1][1] = 96
           /\ Len(ls[1]) >= 2
           /\ HasResidue(ls[2])
           /\ result = <<10>> \o as_bytes(ls[2]) \o <<10>>

\* C29: on valid UTF-8 the output of filter_markdown_code has no backtick
\* and is empty or ends with '\n'.
C29_MarkdownOutputHasNoBacktick ==
    (op = "filter_markdown_code" /\ is_utf8(data)) =>
        /\ \A i \in 1..Len(result) : result[i] # 96
        /\ result = << >> \/ result[Len(result)] = 10

\* C29 witness: a text with a backtick on a kept line that has no final
\* '\n', and an output that is not empty.
C29_Witness ==
    /\ op = "filter_markdown_code"
    /\ is_utf8(data)
    /\ \E k \in 1..Len(lines(chars(data))) :
          /\ KeptLine(lines(chars(data)), k)
          /\ TicksBefore(lines(chars(data))[k], Len(lines(chars(data))[k]) + 1) > 0
    /\ data[Len(data)] # 10
    /\ Len(result) >= 2

----------------------------------------------------------------------------
(* The histogram and the statistics of the records *)

\* the sum of the counts of a histogram
RECURSIVE SumCounts(_, _)
SumCounts(h, keys) ==
    IF keys = {} THEN 0
    ELSE LET b == CHOOSE k \in keys : TRUE
         IN  h[b] + SumCounts(h, keys \ {b})

\* the number of records: one for each '\n', and one more for bytes after
\* the last '\n'
RecordCount ==
    NewlineCount(data)
    + (IF data # << >> /\ data[Len(data)] # 10 THEN 1 ELSE 0)

\* C25: generate_histogram maps each key b to the number of records whose
\* length L (as the line-length list has it) satisfies 10 * (L div 10) = b;
\* every key is a multiple of 10, every count is at least 1, and the counts
\* sum to the number of records.
C25_HistogramBucketsRecords ==
    op = "generate_histogram" =>
        LET lens == line_lengths(data)
            Bucket(k) == 10 * (lens[k] \div 10)
        IN  /\ DOMAIN result = {Bucket(k) : k \in 1..Len(lens)}
            /\ \A b \in DOMAIN result :
                  /\ b % 10 = 0
                  /\ result[b] >= 1
                  /\ result[b] = Cardinality({k \in 1..Len(lens) : Bucket(k) = b})
            /\ SumCounts(result, DOMAIN result) = RecordCount

\* C25 witness: a chunked buffer with two records in bucket 0 and one in
\* bucket 10, the last one without terminator.
C25_Witness ==
    /\ op = "generate_histogram"
    /\ Len(data) >= PARALLEL_THRESHOLD
    /\ data[Len(data)] # 10
    /\ DOMAIN result = {0, 10}
    /\ result[0] = 2

\* C28: for a non-empty buffer the line-length list is non-empty (one entry
\* for each record), and calculate_statistics returns
\* min_line_length <= median_line_length <= max_line_length, empty_lines
\* equal to the number of zero entries of the list (at most the number of
\* records), and max_line_length equal to max_line_length of the buffer.
C28_StatisticsOfNonEmptyBuffer ==
    (op = "calculate_statistics" /\ data # << >>) =>
        LET lens == line_lengths(data)
        IN  /\ lens # << >>
            /\ Len(lens) = RecordCount
            /\ result.min_line_length <= result.median_line_length
            /\ result.median_line_length <= result.max_line_length
            /\ result.empty_lines
                  = Cardinality({k \in 1..Len(lens) : lens[k] = 0})
            /\ result.empty_lines <= RecordCount
            /\ result.max_line_length = max_line_length(data)

\* C28 witness: a chunked buffer with an empty record, whose minimum,
\* median and maximum all differ and whose longest record is not the last.
C28_Witness ==
    /\ op = "calculate_statistics"
    /\ Len(data) >= PARALLEL_THRESHOLD
    /\ result.empty_lines = 1
    /\ result.min_line_length < result.median_line_length
    /\ result.median_line_length < result.max_line_length
    /\ At(line_lengths(data), Len(line_lengths(data)) - 1)
          < result.max_line_length

----------------------------------------------------------------------------
(* The chunked counts on the buffers they are exact for *)

\* the buffer is valid UTF-8 and its only Unicode whitespace characters are
\* the five that u8::is_ascii_whitespace recognises
OnlyAsciiWhitespace(s) ==
    /\ is_utf8(s)
    /\ \A k \in 1..Len(chars(s)) :
          is_whitespace(chars(s)[k]) => chars(s)[k] \in {32, 9, 10, 12, 13}

\* C26: for every valid UTF-8 buffer whose only Unicode whitespace is
\* space, tab, line feed, form feed and carriage return, count_all_words
\* returns the sequential word count of the whole buffer, and on the
\* chunked path the sum of the chunk counts is at least the number of
\* overcounted boundaries, so that the subtraction does not saturate.
C26_WordsExactForAsciiWhitespace ==
    (op = "count_all_words" /\ OnlyAsciiWhitespace(data)) =>
        /\ result = count_words_in_chunk(data)
        /\ Len(data) >= PARALLEL_THRESHOLD =>
              LET bs  == find_utf8_chunk_boundaries(data, CHUNK_SIZE)
                  cks == ChunksOf(data, bs)
              IN  SumSeq([k \in 1..Len(cks) |-> count_words_in_chunk(cks[k])])
                      >= Overcounted(data, bs)

\* C26 witness: such a buffer with a multi-byte character, cut into several
\* chunks, with a word that straddles a boundary and another word after it.
C26_Witness ==
    /\ op = "count_all_words"
    /\ OnlyAsciiWhitespace(data)
    /\ SeveralChunks
    /\ \E k \in 1..Len(data) : is_continuation(data[k])
    /\ Overcounted(data, find_utf8_chunk_boundaries(data, CHUNK_SIZE)) >= 1
    /\ result = 2

\* no proper prefix of the pattern is also a suffix of it, so that two
\* occurrences never overlap
Unbordered(p) ==
    \A k \in 1..(Len(p) - 1) : SubSeq(p, 1, k) # SubSeq(p, Len(p) - k + 1, Len(p))

\* every offset of the buffer at which the pattern occurs
Occurrences == {o \in 0..Len(data) : MatchAt(data, pattern, o)}

\* C27: for every buffer and every non-empty pattern that cannot overlap
\* itself and is no longer than one chunk plus one byte, count_pattern
\* returns the number of occurrences in the whole buffer; for a one-byte
\* pattern every boundary window is empty and the result is the sum of the
\* per-chunk counts.
C27_PatternExactForUnborderedPattern ==
    (/\ op = "count_pattern"
     /\ pattern # << >>
     /\ Unbordered(pattern)
     /\ Len(pattern) <= CHUNK_SIZE + 1) =>
        /\ result = Cardinality(Occurrences)
        /\ result = Len(find_iter(data, pattern))
        /\ (Len(pattern) = 1 /\ Len(data) >= PARALLEL_THRESHOLD) =>
              /\ \A i \in 1..(NumChunks(data) - 1) :
                    saturating_sub(i * CHUNK_SIZE, Len(pattern) - 1)
                        >= Min(i * CHUNK_SIZE + Len(pattern) - 1, Len(data))
              /\ BoundaryMatches(data, pattern) = 0
              /\ result = PatternChunkCount(data, pattern)

\* C27 witness: a pattern of several bytes with one occurrence inside a
\* chunk and one across each of two boundaries.
C27_Witness ==
    /\ op = "count_pattern"
    /\ Len(pattern) >= 2
    /\ Unbordered(pattern)
    /\ Len(pattern) <= CHUNK_SIZE + 1
    /\ PatternChunkCount(data, pattern) = 1
    /\ BoundaryMatchesAt(data, pattern, 1) = 1
    /\ BoundaryMatchesAt(data, pattern, 2) = 1
    /\ result = 3

----------------------------------------------------------------------------
(* Several files and their total *)

\* the file at index k of the collected list can be counted
Counted(k) == fs[files[k]].kind = "file"

\* one line for each collected file that can be counted, in the order of
\* the collected list
RECURSIVE CountedLines(_)
CountedLines(k) ==
    IF k > Len(files) THEN << >>
    ELSE (IF Counted(k)
          THEN <<[path |-> files[k], counts |-> fs[files[k]].counts]>>
          ELSE << >>) \o CountedLines(k + 1)

\* a field of the counts of the collected files, 0 for a file that cannot
\* be counted
FieldOf(field) ==
    [k \in 1..Len(files) |-> IF Counted(k) THEN fs[files[k]].counts[field] ELSE 0]

\* C30: when several files are processed by the workers, the lines printed
\* for the files are in the order in which the files were collected,
\* whatever order the workers finished in, and the total is the sum of the
\* lines and words, and the maximum of max_line_length, of the files that
\* were counted.
C30_ResultsInCollectionOrder ==
    (pc = "exit" /\ Len(files) > 1) =>
        stdout = CountedLines(1)
                 \o <<[path |-> "total",
                       counts |-> [lines |-> SumSeq(FieldOf("lines")),
                                   words |-> SumSeq(FieldOf("words")),
                                   max_line_length |->
                                       MaxSeq(FieldOf("max_line_length"))]]>>

\* C30 witness: three files were collected, one of which cannot be counted;
\* the two others differ and the later one finished first; their lines are
\* printed in the order of collection, followed by the total.
C30_Witness ==
    /\ pc = "exit"
    /\ Len(files) = 3
    /\ \E k \in 1..3 : ~Counted(k)
    /\ \E i, j \in 1..3 :
          /\ i < j
          /\ Counted(i) /\ Counted(j)
          /\ files[i] # files[j]
          /\ tasks[j].finished < tasks[i].finished
          /\ stdout[1].path = files[i]
          /\ stdout[2].path = files[j]
    /\ Len(stdout) = 3
    /\ stdout[3].counts = [lines |-> 3, words |-> 8, max_line_length |-> 7]

====
